---- MODULE Spec2Model ----
(***************************************************************************)
(* Model of utils::Dictionary (src/dictionary.cpp) and of                  *)
(* crossword::loadWords (src/crossword.cpp).                               *)
(*                                                                         *)
(* Strings are sequences of bytes 0..255.  The 48-bit packed key of        *)
(* getKey is kept as its six byte fields <<b0,...,b5>> (field i is bits    *)
(* 8i..8i+7 of the uint64_t): the fields are disjoint, so the shift-or of  *)
(* the source and the tuple determine each other.                          *)
(***************************************************************************)
EXTENDS Integers, Sequences, FiniteSets, TLC

(***************************************************************************)
(* Constants of dictionary.hpp.  The header is not part of the reviewed    *)
(* sources; the values are the ones the code in dictionary.cpp relies on.  *)
(***************************************************************************)
\* first lowercase letter of the win-1251 cyrillic block
CYRILLIC_A == 224
\* the "unknown" placeholder of a pattern: getKey(pattern) packs it as a zero field
ANY_CHAR == 0
\* number of per-length tables of _fastSearch (scaled down; > 6 so that the long path exists)
LONGEST_WORD == 8

\* number of values of the uint16_t word identifier (index of addToFastSearch),
\* 2^16 in the source, scaled down to one bit so that a file can exceed it
IndexRange == 2

(***************************************************************************)
(* Bounds of the model.                                                    *)
(***************************************************************************)
\* entries in the dictionary file
MaxWords == 2
\* result buffers findPossible may allocate in one run
MaxBuffers == 2
\* outcomes of one std::random_shuffle pass: the reversal and the rotations by 1..MaxSeed
MaxSeed == 0
\* length of the strings given to levenstein
MaxLen == 3
\* cells of the crossword board (N * M)
MaxCells == 10
\* length of the strings of boundary bytes given to the normalizer
MaxRaw == 2

VARIABLES
    pc,                 \* "new" | "live" | "thrown" | "crashed" | "destroyed"
    cfgReadable,        \* the requested configuration file can be read
    defaultCfgReadable, \* DEFAULT_CONFIG_PATH can be read
    cfgHasKey,          \* the configuration has dictionary.dictionary_file_path
    dictFile,           \* the dictionary file: whether it opens, and its records
                        \* <<raw word, explanation>>
    dictionaryFilePath, \* _dictionaryFilePath: "unset" | "configured" | "default"
    allWords,           \* _allWords
    dirtyDict,          \* _dirtyDict: clean -> raw word
    explanationDict,    \* _explanationDict: clean -> explanation
    fastSearch,         \* _fastSearch: length -> (key -> list of identifiers)
    cacheSearchMap,     \* _cacheSearchMap: pattern -> address of its result buffer
    heap,               \* result buffers ever allocated: [data, frees]; the data of a
                        \* buffer no pointer reaches any more is not kept
    lastResult,         \* the Pattern returned by the last findPossible since reset
    firstAnswer,        \* history: pattern -> the list of its first answer since reset
    oobAccess,          \* history: _fastSearch was indexed at or beyond LONGEST_WORD
    levA, levB,         \* the arguments of a levenstein call
    levResult,          \* its return value
    levPc,              \* "idle" | "call" | "done"
    N, M,               \* crossword::N, crossword::M
    board,              \* crossword::board: board[i][j] is TRUE for a box
    areas,              \* crossword::areas
    gridPc,             \* "idle" | "loaded" (load() has filled the board) | "words"
    normIn,            \* a raw word given to the normalizer
    normOut,          \* toupper(cleanString(dosToWinCode(normIn)))
    normPc              \* "idle" | "call" | "done"

dictVars == <<pc, cfgReadable, defaultCfgReadable, cfgHasKey, dictFile,
              dictionaryFilePath, allWords, dirtyDict, explanationDict, fastSearch,
              cacheSearchMap, heap, lastResult, firstAnswer, oobAccess>>

levVars == <<levA, levB, levResult, levPc>>

gridVars == <<N, M, board, areas, gridPc>>

normVars == <<normIn, normOut, normPc>>

vars == <<dictVars, levVars, gridVars, normVars>>

(***************************************************************************)
(* Generic helpers                                                         *)
(***************************************************************************)
Min(a, b) == IF a < b THEN a ELSE b

Range(s) == {s[i] : i \in 1..Len(s)}

\* maps (std::map, std::unordered_map) are functions on their set of keys
EmptyMap == <<>>

\* m with k bound to v
MapPut(m, k, v) == (k :> v) @@ m

\* m[k] of std::unordered_map::operator[] as a value: the bucket, empty when absent
MapGet(m, k) == IF k \in DOMAIN m THEN m[k] ELSE <<>>

Bit(mask, i) == (mask \div (2 ^ i)) % 2

(***************************************************************************)
(* Text normalizer                                                         *)
(***************************************************************************)
toupperChar(c) == IF c >= CYRILLIC_A THEN c - 32 ELSE c

toupper(capsWord) == [i \in 1..Len(capsWord) |-> toupperChar(capsWord[i])]

isalpha(c) == c >= CYRILLIC_A - 32

\* dosToWinCode with the range test reaching up to CYRILLIC_A
dosToWinCodeWide(winWord) ==
    [i \in 1..Len(winWord) |->
        IF winWord[i] >= CYRILLIC_A - 96 /\ winWord[i] < CYRILLIC_A
        THEN (winWord[i] + 64) % 256
        ELSE winWord[i]]

dosToWinCode(winWord) ==
    [i \in 1..Len(winWord) |->
        IF winWord[i] >= CYRILLIC_A - 96 /\ winWord[i] < CYRILLIC_A - 32
        THEN (winWord[i] + 64) % 256
        ELSE winWord[i]]

cleanString(dirtyString) == SelectSeq(dirtyString, isalpha)

(***************************************************************************)
(* Key packing                                                             *)
(***************************************************************************)
\* getKey(mask, word): field i holds word[i] when i < min(size, 6) and bit i of mask is set
getKeyMask(mask, word) ==
    LET field(i) == IF i <= Min(Len(word), 6) /\ Bit(mask, i - 1) = 1 THEN word[i] ELSE 0
    IN  <<field(1), field(2), field(3), field(4), field(5), field(6)>>

\* getKey(word): every one of the first min(size, 6) bytes is packed, ANY_CHAR included
getKey(word) ==
    LET field(i) == IF i <= Min(Len(word), 6) THEN word[i] ELSE 0
    IN  <<field(1), field(2), field(3), field(4), field(5), field(6)>>

filledIndicesOf(pattern) == {i \in 1..Len(pattern) : pattern[i] # ANY_CHAR}

\* isPossible(pattern, contender, filledIndices).  contender[i] at or beyond
\* contender.size() reads outside the string (an identifier that wrapped
\* around resolves to a word of another length): beyond tells whether such
\* reads compare equal
isPossible(pattern, contender, filledIndices, beyond) ==
    \A i \in filledIndices :
        IF i <= Len(contender) THEN pattern[i] = contender[i] ELSE beyond

(***************************************************************************)
(* Inputs: dictionary files and query patterns                             *)
(***************************************************************************)
\* Raw records <<word, explanation>>.  Letters are win-1251 bytes: 192 = A,
\* 194 = C, 208 = R, 210 = T (uppercase), +32 lowercase, -64 the DOS code page.
RawPool ==
    { << <<194, 192, 210>>, <<102>> >>,                      \* "CAT", win-1251 uppercase
      << <<130, 128, 144>>, <<118>> >>,                      \* "CAR", DOS code page
      << <<226, 45, 224, 242>>, <<130>> >>,                  \* "c-at", lowercase, decorated
      << <<194, 192, 210, 194, 192, 208>>, <<48>> >>,        \* "CATCAR"
      << <<192, 192, 192, 192, 192, 192, 192>>, <<49>> >>,   \* "AAAAAAA"
      << <<192, 192, 192, 192, 192, 192, 194>>, <<50>> >>,   \* "AAAAAAC"
      << <<192, 192, 192, 192, 192, 192, 192, 192>>, <<51>> >>, \* "AAAAAAAA", over-long
      << <<45>>, <<52>> >> }                                 \* "-", no letter at all

\* the records of the files that hold more entries than there are identifiers
CapPool ==
    { << <<194, 192, 210>>, <<102>> >>,                      \* "CAT"
      << <<130, 128, 144>>, <<118>> >> }                     \* "CAR", DOS code page

\* the record lists a dictionary file may hold: up to MaxWords records, or
\* one record more than the identifier range
FileRecords ==
    UNION {[1..n -> RawPool] : n \in 0..MaxWords} \cup [1..(IndexRange + 1) -> CapPool]

\* the dictionary file cannot be opened
NoFile == [good |-> FALSE, records |-> <<>>]

Files == {[good |-> TRUE, records |-> r] : r \in FileRecords}

canonicalize(rawWord) == toupper(cleanString(dosToWinCode(rawWord)))

CanonPool == {canonicalize(r[1]) : r \in RawPool}

Masked(w, unknown) == [i \in 1..Len(w) |-> IF i \in unknown THEN ANY_CHAR ELSE w[i]]

\* positions of a pool word that a query leaves unknown: position 2, in a
\* short word also position 3, or every position
ProbeSets(w) ==
    (SUBSET ({2} \cup (IF Len(w) <= 6 THEN {3} ELSE {}))) \cup {1..Len(w)}

Patterns == UNION {{Masked(w, u) : u \in ProbeSets(w)} : w \in CanonPool}

\* what a read through an out-of-range table reference may yield after filtering
Garbage == {<<>>, <<0>>}

(***************************************************************************)
(* Load                                                                    *)
(***************************************************************************)
EmptyIndex == [len \in 0..(LONGEST_WORD - 1) |-> EmptyMap]

\* the masks of the loop of addToFastSearch: for (mask = 0u; mask < 64u; ++mask)
Masks == 0..63

\* the loop of addToFastSearch on the table of the word's length: every mask
\* appends index to the bucket of its key, so a key that n masks pack to
\* receives index n times
addMasks(table, newWord, index) ==
    LET keyOf    == {<<mask, getKeyMask(mask, newWord)>> : mask \in Masks}
        keys     == {mk[2] : mk \in keyOf}
        times(k) == Cardinality({mk \in keyOf : mk[2] = k})
    IN  [k \in keys |-> MapGet(table, k) \o [n \in 1..times(k) |-> index]] @@ table

\* addToFastSearch for a word whose length has a table
addToFastSearch(fs, newWord, index) ==
    MapPut(fs, Len(newWord), addMasks(fs[Len(newWord)], newWord, index))

\* an insertion that replaces the value already stored under the key
emplaceOverwrite(m, k, v) == MapPut(m, k, v)

\* std::map::emplace: the first value stored under a key stays
emplace(m, k, v) == IF k \in DOMAIN m THEN m ELSE MapPut(m, k, v)

ResetState ==
    [allWords |-> <<>>, dirtyDict |-> EmptyMap, explanationDict |-> EmptyMap,
     fastSearch |-> EmptyIndex, oob |-> FALSE, crashed |-> FALSE]

RECURSIVE loadLoop(_, _, _)
\* the while loop of loadDictionary over the records of the file.  A word with
\* size() >= LONGEST_WORD indexes _fastSearch out of range: the process dies
\* there (survive = FALSE) or the write lands outside the index and is lost.
loadLoop(st, entries, survive) ==
    IF entries = <<>> \/ st.crashed THEN st
    ELSE LET nextWord    == dosToWinCode(Head(entries)[1])
             explanation == dosToWinCode(Head(entries)[2])
             clean       == toupper(cleanString(nextWord))
             index       == Len(st.allWords) % IndexRange
             inRange     == Len(clean) < LONGEST_WORD
             st1 == [st EXCEPT !.dirtyDict = emplace(@, clean, nextWord),
                               !.explanationDict = emplace(@, clean, explanation)]
             st2 == IF inRange
                    THEN [st1 EXCEPT !.fastSearch = addToFastSearch(@, clean, index),
                                     !.allWords = Append(@, clean)]
                    ELSE IF survive
                    THEN [st1 EXCEPT !.oob = TRUE, !.allWords = Append(@, clean)]
                    ELSE [st1 EXCEPT !.oob = TRUE, !.crashed = TRUE]
         IN  loadLoop(st2, Tail(entries), survive)

\* the loop over each file of the model, evaluated once
LoadedFiles ==
    [x \in FileRecords \X BOOLEAN |-> loadLoop(ResetState, x[1], x[2])] @@ EmptyMap

\* loadDictionary(): reset(), then the records of the file when it opens
loadDictionary(file, survive) ==
    IF file.good THEN LoadedFiles[<<file.records, survive>>] ELSE ResetState

(***************************************************************************)
(* Shuffle                                                                 *)
(***************************************************************************)
\* a reversal that overwrites the first half instead of swapping
PermuteOverwrite(s, seed) ==
    [i \in 1..Len(s) |-> s[IF i > Len(s) + 1 - i THEN i ELSE Len(s) + 1 - i]]

\* one outcome of std::random_shuffle on a list: the reversal (seed 0) or the
\* rotation by seed
Permute(s, seed) ==
    IF seed = 0
    THEN [i \in 1..Len(s) |-> s[Len(s) + 1 - i]]
    ELSE [i \in 1..Len(s) |-> s[((i - 1 + seed) % Len(s)) + 1]]

shuffleIndex(fs, seed) ==
    [len \in DOMAIN fs |-> [k \in DOMAIN fs[len] |-> Permute(fs[len][k], seed)]]

shuffleHeap(hp, cache, seed) ==
    [a \in DOMAIN hp |->
        IF \E p \in DOMAIN cache : cache[p] = a
        THEN [hp[a] EXCEPT !.data = Permute(@, seed)]
        ELSE hp[a]]

(***************************************************************************)
(* Construction                                                            *)
(***************************************************************************)
\* read_ini(path, tree): "ok" when the file can be read, else it throws
read_ini(readable) == IF readable THEN "ok" ELSE "throw"

\* Dictionary(configFilePath), the configuration part: the first read_ini, and in
\* its catch block the test of DEFAULT_CONFIG_PATH and the second read_ini, which
\* is given configFilePath again
ctorConfig(requested, dflt) ==
    IF read_ini(requested) = "ok" THEN "ok"
    ELSE IF dflt THEN "throw"
    ELSE read_ini(requested)

\* Dictionary(), the configuration part: read_ini(DEFAULT_CONFIG_PATH), rethrown
ctorDefaultConfig(dflt) == read_ini(dflt)

\* the try block around get<std::string>("dictionary.dictionary_file_path")
configuredPath(hasKey) == IF hasKey THEN "configured" ELSE "default"

NoResult == [pattern |-> <<>>, size |-> 0, buf |-> 0]

\* loadDictionary(); shuffle(); as the constructors run them
ConstructTail(path) ==
    \E survive \in BOOLEAN, seed \in 0..MaxSeed :
        LET st == loadDictionary(dictFile, survive)
        IN  /\ dictionaryFilePath' = path
            /\ allWords' = st.allWords
            /\ dirtyDict' = st.dirtyDict
            /\ explanationDict' = st.explanationDict
            /\ oobAccess' = st.oob
            /\ IF st.crashed
               THEN /\ pc' = "crashed"
                    /\ fastSearch' = st.fastSearch
               ELSE /\ pc' = "live"
                    /\ fastSearch' = shuffleIndex(st.fastSearch, seed)
            /\ UNCHANGED <<cacheSearchMap, heap, lastResult, firstAnswer>>

ConstructFails ==
    /\ pc' = "thrown"
    /\ UNCHANGED <<dictionaryFilePath, allWords, dirtyDict, explanationDict,
                   fastSearch, cacheSearchMap, heap, lastResult, firstAnswer,
                   oobAccess>>

\* Dictionary::Dictionary(const std::string& configFilePath)
Construct ==
    /\ pc = "new"
    /\ IF ctorConfig(cfgReadable, defaultCfgReadable) = "ok"
       THEN ConstructTail(configuredPath(cfgHasKey))
       ELSE ConstructFails
    /\ UNCHANGED <<cfgReadable, defaultCfgReadable, cfgHasKey, dictFile>>

\* Dictionary::Dictionary()
ConstructDefault ==
    /\ pc = "new"
    /\ IF ctorDefaultConfig(defaultCfgReadable) = "ok"
       THEN ConstructTail(configuredPath(cfgHasKey))
       ELSE ConstructFails
    /\ UNCHANGED <<cfgReadable, defaultCfgReadable, cfgHasKey, dictFile>>

(***************************************************************************)
(* Operations on a constructed dictionary                                  *)
(***************************************************************************)
cfg == <<cfgReadable, defaultCfgReadable, cfgHasKey, dictionaryFilePath>>

\* the heap once the cache map has dropped its pointers without deleting
dropPointers(hp) == [a \in DOMAIN hp |-> [hp[a] EXCEPT !.data = <<>>]]

\* Dictionary::reset(): the cache map is cleared, its buffers are not deleted
Reset ==
    /\ pc = "live"
    /\ allWords' = ResetState.allWords
    /\ dirtyDict' = ResetState.dirtyDict
    /\ explanationDict' = ResetState.explanationDict
    /\ fastSearch' = ResetState.fastSearch
    /\ cacheSearchMap' = EmptyMap
    /\ heap' = dropPointers(heap)
    /\ lastResult' = NoResult
    /\ firstAnswer' = EmptyMap
    /\ UNCHANGED <<pc, cfg, dictFile, oobAccess>>

\* Dictionary::loadDictionary(); the file may have gone since the last load
LoadDictionary ==
    /\ pc = "live"
    /\ \E file \in {dictFile, NoFile}, survive \in BOOLEAN :
        LET st == loadDictionary(file, survive)
        IN  /\ dictFile' = file
            /\ allWords' = st.allWords
            /\ dirtyDict' = st.dirtyDict
            /\ explanationDict' = st.explanationDict
            /\ fastSearch' = st.fastSearch
            /\ oobAccess' = (oobAccess \/ st.oob)
            /\ pc' = IF st.crashed THEN "crashed" ELSE "live"
    /\ cacheSearchMap' = EmptyMap
    /\ heap' = dropPointers(heap)
    /\ lastResult' = NoResult
    /\ firstAnswer' = EmptyMap
    /\ UNCHANGED cfg

\* Dictionary::shuffle()
Shuffle ==
    /\ pc = "live"
    /\ \E seed \in 0..MaxSeed :
        /\ fastSearch' = shuffleIndex(fastSearch, seed)
        /\ heap' = shuffleHeap(heap, cacheSearchMap, seed)
    /\ UNCHANGED <<pc, cfg, dictFile, allWords, dirtyDict, explanationDict,
                   cacheSearchMap, lastResult, firstAnswer, oobAccess>>

\* what the reference to the temporary of return ""; may read as
Dangling == {<<>>, <<0>>}

\* getDirty(clean): the outcomes of the call; the stored spelling when the key
\* is found, else a reference to a destroyed temporary
getDirty(dirty, clean) ==
    IF clean \in DOMAIN dirty THEN {dirty[clean]} ELSE Dangling

\* getExplanation(clean): as getDirty, on _explanationDict
getExplanation(explanations, clean) ==
    IF clean \in DOMAIN explanations THEN {explanations[clean]} ELSE Dangling

\* getFromIndex(index): the word table entry of an identifier
getFromIndex(words, index) == words[index + 1]

\* the candidates of findPossible: _fastSearch[pattern.size()][key]
narrowedWords(fs, pattern) == MapGet(fs[Len(pattern)], getKey(pattern))

\* operator[] on the table creates the bucket it does not find
touchBucket(fs, pattern) ==
    IF getKey(pattern) \in DOMAIN fs[Len(pattern)]
    THEN fs
    ELSE MapPut(fs, Len(pattern), MapPut(fs[Len(pattern)], getKey(pattern), <<>>))

\* the list findPossible computes on a cache miss, for a length that has a table
computeMatches(fs, words, pattern, beyond) ==
    IF Len(pattern) <= 6
    THEN narrowedWords(fs, pattern)
    ELSE SelectSeq(narrowedWords(fs, pattern),
                   LAMBDA contender :
                       isPossible(pattern, getFromIndex(words, contender),
                                  filledIndicesOf(pattern), beyond))

\* the Pattern view findPossible returns over the buffer at address a
patternView(pattern, hp, a) == [pattern |-> pattern, size |-> Len(hp[a].data), buf |-> a]

\* new std::vector<uint16_t>(...); _cacheSearchMap[pattern] = it; return Pattern(...)
CacheAndReturn(pattern, data) ==
    LET a == Len(heap) + 1
    IN  /\ heap' = Append(heap, [data |-> data, frees |-> 0])
        /\ cacheSearchMap' = MapPut(cacheSearchMap, pattern, a)
        /\ lastResult' = patternView(pattern, heap', a)
        /\ firstAnswer' = emplace(firstAnswer, pattern, data)

\* Dictionary::findPossible(pattern)
FindPossible(pattern) ==
    /\ pc = "live"
    /\ \/ /\ pattern \in DOMAIN cacheSearchMap
          /\ lastResult' = patternView(pattern, heap, cacheSearchMap[pattern])
          /\ UNCHANGED <<pc, fastSearch, cacheSearchMap, heap, firstAnswer, oobAccess>>
       \/ /\ pattern \notin DOMAIN cacheSearchMap
          /\ Len(pattern) < LONGEST_WORD
          /\ Len(heap) < MaxBuffers
          /\ fastSearch' = touchBucket(fastSearch, pattern)
          /\ \E beyond \in BOOLEAN :
                CacheAndReturn(pattern, computeMatches(fastSearch, allWords, pattern, beyond))
          /\ UNCHANGED <<pc, oobAccess>>
       \/ /\ pattern \notin DOMAIN cacheSearchMap
          /\ Len(pattern) >= LONGEST_WORD
          /\ Len(heap) < MaxBuffers
          /\ oobAccess' = TRUE
          /\ \/ /\ pc' = "crashed"
                /\ UNCHANGED <<fastSearch, cacheSearchMap, heap, lastResult, firstAnswer>>
             \/ /\ \E g \in Garbage : CacheAndReturn(pattern, g)
                /\ UNCHANGED <<pc, fastSearch>>
    /\ UNCHANGED <<cfg, dictFile, allWords, dirtyDict, explanationDict>>

\* Dictionary::~Dictionary(): delete every buffer the cache map still holds
Destroy ==
    /\ pc = "live"
    /\ pc' = "destroyed"
    /\ heap' = [a \in DOMAIN heap |->
                   IF \E p \in DOMAIN cacheSearchMap : cacheSearchMap[p] = a
                   THEN [heap[a] EXCEPT !.frees = @ + 1]
                   ELSE heap[a]]
    /\ UNCHANGED <<cfg, dictFile, allWords, dirtyDict, explanationDict, fastSearch,
                   cacheSearchMap, lastResult, firstAnswer, oobAccess>>

RECURSIVE SeqsUpTo(_, _)
SeqsUpTo(alphabet, n) ==
    IF n = 0 THEN {<<>>}
    ELSE LET shorter == SeqsUpTo(alphabet, n - 1)
         IN  shorter \cup {Append(w, c) : w \in shorter, c \in alphabet}

(***************************************************************************)
(* Edit distance                                                           *)
(***************************************************************************)
\* the table of Dictionary::levenstein: dp[i][j] is 0 when min(i, j) = 0
levenstein(a, b) ==
    LET dp[i \in 0..Len(a), j \in 0..Len(b)] ==
            IF Min(i, j) = 0
            THEN 0
            ELSE Min(Min(dp[i - 1, j] + 1, dp[i, j - 1] + 1),
                     dp[i - 1, j - 1] + (IF a[i] # b[j] THEN 1 ELSE 0))
    IN  dp[Len(a), Len(b)]

\* "KITTEN", "SITTING" in ASCII
Kitten == <<75, 73, 84, 84, 69, 78>>

Sitting == <<83, 73, 84, 84, 73, 78, 71>>

LevStrings == SeqsUpTo({75, 83}, MaxLen) \cup {Kitten, Sitting}

LevCall ==
    /\ levPc = "call"
    /\ levResult' = levenstein(levA, levB)
    /\ levPc' = "done"
    /\ UNCHANGED <<levA, levB>>

(***************************************************************************)
(* Normalization of one raw word                                           *)
(***************************************************************************)
\* the bytes at the edges of the ranges the normalizer tests: control,
\* punctuation, ASCII letters, the DOS block, uppercase, lowercase
BoundaryBytes == {0, 45, 65, 127, 128, 130, 159, 160, 191, 192, 208, 223, 224, 240, 255}

\* every one-byte string, and the strings of boundary bytes up to MaxRaw
RawWords == {<<c>> : c \in 0..255} \cup SeqsUpTo(BoundaryBytes, MaxRaw)

\* line 166 and line 169 of loadDictionary on one raw word
Normalize ==
    /\ normPc = "call"
    /\ normOut' = canonicalize(normIn)
    /\ normPc' = "done"
    /\ UNCHANGED normIn

(***************************************************************************)
(* Slot extraction                                                         *)
(***************************************************************************)
\* crossword::isBox(i, j) (crossword.h): the cell holds the blocked marker
isBox(b, i, j) == b[i][j]

RECURSIVE runEnd(_, _, _, _, _)
\* for (; j < M && !isBox(i, j); ++j);   and its column twin (hor = 0)
runEnd(b, hor, fixed, k, limit) ==
    IF k < limit /\ ~(IF hor = 1 THEN isBox(b, fixed, k) ELSE isBox(b, k, fixed))
    THEN runEnd(b, hor, fixed, k + 1, limit)
    ELSE k

\* newPos with the id of a vertical slot's cell computed as that of a row's
newPosRowIds(hor, fixed, start, end, cols) ==
    [hor |-> hor,
     letters |-> [n \in 1..(end - start) |->
                    IF hor = 1
                    THEN [row |-> fixed, col |-> start + n - 1,
                          id |-> fixed * cols + (start + n - 1)]
                    ELSE [row |-> start + n - 1, col |-> fixed,
                          id |-> fixed * cols + (start + n - 1)]]]

\* position newPos with letters {&board[..][..], linear id} for start..end-1
newPos(hor, fixed, start, end, cols) ==
    [hor |-> hor,
     letters |-> [n \in 1..(end - start) |->
                    IF hor = 1
                    THEN [row |-> fixed, col |-> start + n - 1,
                          id |-> fixed * cols + (start + n - 1)]
                    ELSE [row |-> start + n - 1, col |-> fixed,
                          id |-> (start + n - 1) * cols + fixed]]]

RECURSIVE scanLineKeepsSingles(_, _, _, _, _, _, _)
\* the inner for of loadWords with the test end - start < 1
scanLineKeepsSingles(b, hor, fixed, k, limit, cols, acc) ==
    IF k >= limit THEN acc
    ELSE LET start == k
             end   == runEnd(b, hor, fixed, k, limit)
         IN  IF end - start < 1
             THEN scanLineKeepsSingles(b, hor, fixed, end + 1, limit, cols, acc)
             ELSE scanLineKeepsSingles(b, hor, fixed, end + 1, limit, cols,
                                       Append(acc, newPos(hor, fixed, start, end, cols)))

RECURSIVE scanLine(_, _, _, _, _, _, _)
\* the inner for of loadWords over one row (hor = 1) or one column (hor = 0)
scanLine(b, hor, fixed, k, limit, cols, acc) ==
    IF k >= limit THEN acc
    ELSE LET start == k
             end   == runEnd(b, hor, fixed, k, limit)
         IN  IF end - start <= 1
             THEN scanLine(b, hor, fixed, end + 1, limit, cols, acc)
             ELSE scanLine(b, hor, fixed, end + 1, limit, cols,
                           Append(acc, newPos(hor, fixed, start, end, cols)))

RECURSIVE scanLines(_, _, _, _, _, _, _)
\* the outer for of loadWords: rows 0..N-1 (hor = 1) or columns 0..M-1 (hor = 0)
scanLines(b, hor, fixed, count, limit, cols, acc) ==
    IF fixed >= count THEN acc
    ELSE scanLines(b, hor, fixed + 1, count, limit, cols,
                   scanLine(b, hor, fixed, 0, limit, cols, acc))

\* position::sortHelp (crossword.h): shorter slots first
sortHelp(x, y) == Len(x.letters) < Len(y.letters)

RECURSIVE insertSorted(_, _)
insertSorted(sorted, x) ==
    IF sorted = <<>> THEN <<x>>
    ELSE IF sortHelp(x, Head(sorted)) THEN <<x>> \o sorted
    ELSE <<Head(sorted)>> \o insertSorted(Tail(sorted), x)

RECURSIVE sortAreas(_, _)
\* sort(areas.begin(), areas.end(), position::sortHelp)
sortAreas(todo, sorted) ==
    IF todo = <<>> THEN sorted
    ELSE sortAreas(Tail(todo), insertSorted(sorted, Head(todo)))

\* crossword::loadWords(): areas.clear(), the row pass, the column pass, the sort
loadWords(b, rows, cols) ==
    LET horizontal == scanLines(b, 1, 0, rows, cols, cols, <<>>)
        both       == scanLines(b, 0, 0, cols, rows, cols, horizontal)
    IN  sortAreas(both, <<>>)

Boards(rows, cols) == [0..(rows - 1) -> [0..(cols - 1) -> BOOLEAN]]

LoadWords ==
    /\ gridPc \in {"loaded", "words"}
    /\ areas' = loadWords(board, N, M)
    /\ gridPc' = "words"
    /\ UNCHANGED <<N, M, board>>

(***************************************************************************)
(* Specifications                                                          *)
(***************************************************************************)
DictNew ==
    /\ pc = "new"
    /\ dictionaryFilePath = "unset"
    /\ allWords = <<>>
    /\ dirtyDict = EmptyMap
    /\ explanationDict = EmptyMap
    /\ fastSearch = EmptyIndex
    /\ cacheSearchMap = EmptyMap
    /\ heap = <<>>
    /\ lastResult = NoResult
    /\ firstAnswer = EmptyMap
    /\ oobAccess = FALSE

DictIdle ==
    /\ DictNew
    /\ cfgReadable = TRUE
    /\ defaultCfgReadable = TRUE
    /\ cfgHasKey = TRUE
    /\ dictFile = NoFile

LevIdle ==
    /\ levA = <<>>
    /\ levB = <<>>
    /\ levResult = 0
    /\ levPc = "idle"

GridIdle ==
    /\ N = 0
    /\ M = 0
    /\ board = <<>>
    /\ areas = <<>>
    /\ gridPc = "idle"

NormIdle ==
    /\ normIn = <<>>
    /\ normOut = <<>>
    /\ normPc = "idle"

\* a dictionary about to be constructed from a readable configuration
Init ==
    /\ DictNew
    /\ cfgReadable = TRUE
    /\ defaultCfgReadable = TRUE
    /\ cfgHasKey = TRUE
    /\ dictFile \in Files \cup {NoFile}
    /\ LevIdle
    /\ GridIdle
    /\ NormIdle

Next ==
    \/ Construct /\ UNCHANGED <<levVars, gridVars, normVars>>
    \/ Reset /\ UNCHANGED <<levVars, gridVars, normVars>>
    \/ LoadDictionary /\ UNCHANGED <<levVars, gridVars, normVars>>
    \/ Shuffle /\ UNCHANGED <<levVars, gridVars, normVars>>
    \/ (\E pattern \in Patterns : FindPossible(pattern)) /\ UNCHANGED <<levVars, gridVars, normVars>>
    \/ Destroy /\ UNCHANGED <<levVars, gridVars, normVars>>

Spec == Init /\ [][Next]_vars

\* a dictionary about to be constructed, every state of the configuration files
InitCtor ==
    /\ DictNew
    /\ cfgReadable \in BOOLEAN
    /\ defaultCfgReadable \in BOOLEAN
    /\ cfgHasKey \in BOOLEAN
    /\ dictFile \in Files \cup {NoFile}
    /\ LevIdle
    /\ GridIdle
    /\ NormIdle

NextCtor ==
    \/ Construct /\ UNCHANGED <<levVars, gridVars, normVars>>
    \/ ConstructDefault /\ UNCHANGED <<levVars, gridVars, normVars>>

SpecCtor == InitCtor /\ [][NextCtor]_vars

InitLev ==
    /\ DictIdle
    /\ GridIdle
    /\ NormIdle
    /\ levA \in LevStrings
    /\ levB \in LevStrings
    /\ levResult = 0
    /\ levPc = "call"

NextLev == LevCall /\ UNCHANGED <<dictVars, gridVars, normVars>>

SpecLev == InitLev /\ [][NextLev]_vars

\* the state load() leaves before it calls loadWords(): N, M and the board are read
InitGrid ==
    /\ DictIdle
    /\ LevIdle
    /\ NormIdle
    /\ N \in 0..MaxCells
    /\ M \in 0..MaxCells
    /\ N * M <= MaxCells
    /\ board \in Boards(N, M)
    /\ areas = <<>>
    /\ gridPc = "loaded"

NextGrid == LoadWords /\ UNCHANGED <<dictVars, levVars, normVars>>

SpecGrid == InitGrid /\ [][NextGrid]_vars

\* a raw word about to be normalized
InitNorm ==
    /\ DictIdle
    /\ LevIdle
    /\ GridIdle
    /\ normIn \in RawWords
    /\ normOut = <<>>
    /\ normPc = "call"

NextNorm == Normalize /\ UNCHANGED <<dictVars, levVars, gridVars>>

SpecNorm == InitNorm /\ [][NextNorm]_vars

(***************************************************************************)
(* Properties                                                              *)
(***************************************************************************)
\* word has the length of pattern and its letter at every concrete position
Agrees(pattern, word) ==
    /\ Len(word) = Len(pattern)
    /\ \A i \in 1..Len(pattern) : pattern[i] # ANY_CHAR => word[i] = pattern[i]

\* the identifiers of the loaded words that agree with pattern
MatchingIds(pattern) == {id \in 0..(Len(allWords) - 1) : Agrees(pattern, allWords[id + 1])}

\* a findPossible call has returned since the last reset and the object is alive
Answered == pc = "live" /\ lastResult.buf # 0

\* the identifiers the returned view enumerates
ResultIds == Range(heap[lastResult.buf].data)

\* the identifiers of the buffer cached under pattern
CachedIds(pattern) == Range(heap[cacheSearchMap[pattern]].data)

\* q is p with one unknown position made concrete
Refines(q, p) ==
    /\ Len(q) = Len(p)
    /\ \E i \in 1..Len(p) :
        /\ p[i] = ANY_CHAR
        /\ q[i] # ANY_CHAR
        /\ \A j \in (1..Len(p)) \ {i} : q[j] = p[j]

\* C1 (as claimed): a view returned for a pattern of length <= 6 enumerates
\* exactly the loaded words of that length that agree with the pattern at
\* every concrete position, whatever the dictionary.
C1_ShortPatternExact ==
    (Answered /\ Len(lastResult.pattern) <= 6)
        => ResultIds = MatchingIds(lastResult.pattern)

\* The short path is exact while the word table fits the identifier range.
ShortPatternExactInCapacity ==
    (Answered /\ Len(lastResult.pattern) <= 6 /\ Len(allWords) <= IndexRange)
        => ResultIds = MatchingIds(lastResult.pattern)

\* The file holds CAT then CAR, and the pattern C?T returned CAT only.
ShortPatternExample ==
    /\ Answered
    /\ allWords = << <<194, 192, 210>>, <<194, 192, 208>> >>
    /\ lastResult.pattern = <<194, ANY_CHAR, 210>>
    /\ ResultIds = {0}

\* C2 (as claimed): a view returned for a pattern of any length > 6 enumerates
\* exactly the loaded words of that length that agree with the pattern at
\* every concrete position.
C2_LongPatternExact ==
    (Answered /\ Len(lastResult.pattern) > 6)
        => ResultIds = MatchingIds(lastResult.pattern)

\* The long path is exact for the lengths that have a table.
LongPatternExactInRange ==
    (Answered /\ Len(lastResult.pattern) > 6 /\ Len(lastResult.pattern) < LONGEST_WORD)
        => ResultIds = MatchingIds(lastResult.pattern)

\* C3: between two resets every answer for a pattern has the identifiers of
\* the first answer for it, and every cached list keeps them, through any
\* shuffle and any other query.
C3_SameAnswer ==
    /\ Answered =>
        /\ lastResult.pattern \in DOMAIN firstAnswer
        /\ ResultIds = Range(firstAnswer[lastResult.pattern])
    /\ pc = "live" =>
        \A p \in DOMAIN cacheSearchMap :
            p \in DOMAIN firstAnswer /\ CachedIds(p) = Range(firstAnswer[p])

\* C3 witness: the pattern of the first buffer was asked again after another
\* pattern was computed and after a shuffle reordered its two identifiers.
C3_Witness ==
    /\ Answered
    /\ Len(heap) = 2
    /\ lastResult.buf = 1
    /\ Cardinality(ResultIds) = 2
    /\ heap[1].data # firstAnswer[lastResult.pattern]

\* C4 (as claimed): of two cached patterns of the same length, the one with
\* one more concrete position has a subset of the other's identifiers.
C4_Monotone ==
    pc = "live" =>
        \A p \in DOMAIN cacheSearchMap, q \in DOMAIN cacheSearchMap :
            Refines(q, p) => CachedIds(q) \subseteq CachedIds(p)

\* Monotonicity holds between patterns of a length that has a table.
MonotoneInRange ==
    pc = "live" =>
        \A p \in DOMAIN cacheSearchMap, q \in DOMAIN cacheSearchMap :
            (Refines(q, p) /\ Len(p) < LONGEST_WORD)
                => CachedIds(q) \subseteq CachedIds(p)

\* C5 (as claimed): once the destructor has run, every buffer findPossible
\* allocated has been deleted exactly once.
C5_ReleasedOnce ==
    pc = "destroyed" => \A a \in DOMAIN heap : heap[a].frees = 1

\* No buffer is deleted twice.
NeverReleasedTwice == \A a \in DOMAIN heap : heap[a].frees <= 1

\* what a computation of pattern against the current index can give
FreshIds(pattern) ==
    IF Len(pattern) < LONGEST_WORD
    THEN {Range(computeMatches(fastSearch, allWords, pattern, beyond)) : beyond \in BOOLEAN}
    ELSE {{}}

\* C6 (as claimed): every cache entry holds the identifiers a fresh
\* computation of its pattern against the current index gives.
C6_CacheCoherent ==
    pc = "live" => \A p \in DOMAIN cacheSearchMap : CachedIds(p) \in FreshIds(p)

\* Cache entries of patterns whose length has a table are coherent.
CacheCoherentInRange ==
    pc = "live" =>
        \A p \in DOMAIN cacheSearchMap :
            Len(p) < LONGEST_WORD => CachedIds(p) \in FreshIds(p)

\* A reset or a reload leaves the cache empty; no other step drops an entry.
CacheKeptOrCleared ==
    [][IF Reset \/ LoadDictionary
       THEN cacheSearchMap' = EmptyMap
       ELSE DOMAIN cacheSearchMap \subseteq DOMAIN cacheSearchMap']_vars

\* the classic Levenshtein distance: base row and column hold the index
Classic(a, b) ==
    LET d[i \in 0..Len(a), j \in 0..Len(b)] ==
            IF i = 0 THEN j
            ELSE IF j = 0 THEN i
            ELSE Min(Min(d[i - 1, j] + 1, d[i, j - 1] + 1),
                     d[i - 1, j - 1] + (IF a[i] # b[j] THEN 1 ELSE 0))
    IN  d[Len(a), Len(b)]

\* C7 (as claimed): levenstein returns the classic Levenshtein distance.
C7_IsLevenshtein ==
    levPc = "done" => levResult = Classic(levA, levB)

\* C8 (as claimed): with an unreadable requested configuration and a readable
\* default configuration, construction does not throw.
C8_FallsBackToDefault ==
    (~cfgReadable /\ defaultCfgReadable) => pc # "thrown"

\* the maximal runs of at least two open cells of every row (hor = 1) or
\* column (hor = 0), each as <<hor, cells in scan order>>
OpenCell(i, j) == i \in 0..(N - 1) /\ j \in 0..(M - 1) /\ ~board[i][j]

RowRuns ==
    {<<1, [n \in 1..(e - s + 1) |-> <<i, s + n - 1>>]>> :
        <<i, s, e>> \in {t \in (0..(N - 1)) \X (0..(M - 1)) \X (0..(M - 1)) :
            /\ t[3] - t[2] >= 1
            /\ \A j \in t[2]..t[3] : OpenCell(t[1], j)
            /\ ~OpenCell(t[1], t[2] - 1)
            /\ ~OpenCell(t[1], t[3] + 1)}}

ColumnRuns ==
    {<<0, [n \in 1..(e - s + 1) |-> <<s + n - 1, j>>]>> :
        <<j, s, e>> \in {t \in (0..(M - 1)) \X (0..(N - 1)) \X (0..(N - 1)) :
            /\ t[3] - t[2] >= 1
            /\ \A i \in t[2]..t[3] : OpenCell(i, t[1])
            /\ ~OpenCell(t[2] - 1, t[1])
            /\ ~OpenCell(t[3] + 1, t[1])}}

\* a slot of areas as <<hor, cells in stored order>>
SlotCells(a) == <<a.hor, [n \in 1..Len(a.letters) |-> <<a.letters[n].row, a.letters[n].col>>]>>

\* C9: after loadWords the slots are exactly the maximal runs of at least two
\* open cells of the rows and of the columns, one slot per run, cells in scan
\* order; a run of one cell gives no slot.
C9_SlotsAreMaximalRuns ==
    gridPc = "words" =>
        /\ {SlotCells(areas[n]) : n \in 1..Len(areas)} = RowRuns \cup ColumnRuns
        /\ Len(areas) = Cardinality(RowRuns \cup ColumnRuns)

\* C9 witness: a row with two slots, next to an open cell that is in no slot.
C9_Witness ==
    /\ gridPc = "words"
    /\ \E x \in 1..Len(areas), y \in 1..Len(areas) :
        /\ x # y
        /\ areas[x].hor = 1
        /\ areas[y].hor = 1
        /\ areas[x].letters[1].row = areas[y].letters[1].row
    /\ \E i \in 0..(N - 1), j \in 0..(M - 1) :
        /\ OpenCell(i, j)
        /\ \A n \in 1..Len(areas) : \A c \in 1..Len(areas[n].letters) :
            <<areas[n].letters[c].row, areas[n].letters[c].col>> # <<i, j>>

\* C10 (as claimed): no load and no query indexes _fastSearch at or beyond
\* LONGEST_WORD.
C10_NoTableOutOfRange == ~oobAccess

\* word is one that load files under key in the table of length len
FiledUnder(word, len, key) ==
    /\ Len(word) = len
    /\ \A i \in 1..6 : key[i] # 0 => (i <= Len(word) /\ word[i] = key[i])

\* every identifier of every bucket is the position of a word filed there
BucketsResolve ==
    \A len \in DOMAIN fastSearch : \A key \in DOMAIN fastSearch[len] :
        \A id \in Range(fastSearch[len][key]) :
            /\ id < Len(allWords)
            /\ FiledUnder(getFromIndex(allWords, id), len, key)

\* C11 (as claimed): a load of more entries than there are identifiers fails,
\* so a dictionary in use has no more words than identifiers, and every
\* identifier in every bucket is the position of the word registered under it.
C11_IdentifiersArePositions ==
    pc = "live" => (Len(allWords) <= IndexRange /\ BucketsResolve)

\* Identifiers are positions while the word table fits the identifier range.
IdentifiersArePositionsInCapacity ==
    (pc = "live" /\ Len(allWords) <= IndexRange) => BucketsResolve

\* A load of more entries than there are identifiers has returned normally.
LoadedBeyondCapacity == pc = "live" /\ Len(allWords) > IndexRange

\* the positions of the word table that hold word
PositionsOf(word) == {id \in 0..(Len(allWords) - 1) : allWords[id + 1] = word}

\* the last answer is for a pattern that is a loaded word, letter for letter
AnsweredLoadedWord == Answered /\ PositionsOf(lastResult.pattern) # {}

\* C12 (as claimed): the view returned for a pattern identical to a loaded
\* word, of any length, contains the identifier (position) of that word.
C12_SelfMatch ==
    AnsweredLoadedWord => PositionsOf(lastResult.pattern) \subseteq ResultIds

\* A loaded word whose length has a table finds itself while the word table
\* fits the identifier range.
SelfMatchInRange ==
    (AnsweredLoadedWord /\ Len(lastResult.pattern) < LONGEST_WORD
                        /\ Len(allWords) <= IndexRange)
        => PositionsOf(lastResult.pattern) \subseteq ResultIds

\* A seven-letter loaded word was asked for and found.
SelfMatchExample ==
    /\ AnsweredLoadedWord
    /\ Len(lastResult.pattern) = 7
    /\ ResultIds # {}

\* the last answer is for a pattern of unknown placeholders only
AnsweredAllUnknown ==
    Answered /\ \A i \in 1..Len(lastResult.pattern) : lastResult.pattern[i] = ANY_CHAR

\* the positions of the loaded words of length len
IdsOfLength(len) == {id \in 0..(Len(allWords) - 1) : Len(allWords[id + 1]) = len}

\* C13 (as claimed): the view returned for a pattern of L unknown
\* placeholders enumerates exactly the loaded words of length L, for every L.
C13_AllUnknownExact ==
    AnsweredAllUnknown => ResultIds = IdsOfLength(Len(lastResult.pattern))

\* The all-unknown pattern is exact for a length that has a table while the
\* word table fits the identifier range.
AllUnknownExactInRange ==
    (AnsweredAllUnknown /\ Len(lastResult.pattern) < LONGEST_WORD
                        /\ Len(allWords) <= IndexRange)
        => ResultIds = IdsOfLength(Len(lastResult.pattern))

\* Seven unknowns returned two loaded seven-letter words.
AllUnknownExample ==
    /\ AnsweredAllUnknown
    /\ Len(lastResult.pattern) = 7
    /\ Cardinality(ResultIds) = 2

\* C14 (as claimed): a load that cannot open the file returns normally with
\* the word table, the index and the cache empty, and every answer given
\* while no file is loaded has no matches.
C14_SoftLoadFailure ==
    /\ [][(Construct \/ LoadDictionary) /\ ~dictFile'.good
            => /\ pc' = "live"
               /\ allWords' = <<>>
               /\ fastSearch' = EmptyIndex
               /\ cacheSearchMap' = EmptyMap]_vars
    /\ []((Answered /\ ~dictFile.good) => lastResult.size = 0)

\* A load that cannot open the file returns normally and leaves everything
\* empty, also after a dictionary was loaded and queried; the answers for the
\* patterns whose length has a table are then empty.
SoftLoadFailureInRange ==
    /\ [][(Construct \/ LoadDictionary) /\ ~dictFile'.good
            => /\ pc' = "live"
               /\ allWords' = <<>>
               /\ fastSearch' = EmptyIndex
               /\ cacheSearchMap' = EmptyMap]_vars
    /\ []((Answered /\ ~dictFile.good /\ Len(lastResult.pattern) < LONGEST_WORD)
            => lastResult.size = 0)

\* A query was answered with a match after the file had failed to open.
AnswerWithoutDictionary == Answered /\ ~dictFile.good /\ lastResult.size > 0

\* the file has been loaded to its end and the tables were not reset since
Loaded ==
    /\ pc = "live"
    /\ dictFile.good
    /\ dictFile.records # <<>>
    /\ Len(allWords) = Len(dictFile.records)

\* the first record of the file whose word normalizes to key
FirstRecord(key) ==
    dictFile.records[CHOOSE n \in 1..Len(dictFile.records) :
        /\ canonicalize(dictFile.records[n][1]) = key
        /\ \A m \in 1..(n - 1) : canonicalize(dictFile.records[m][1]) # key]

\* C15: after a load, getDirty and getExplanation of every canonical key of
\* the file return the spelling and the explanation (in the code page load
\* converts them to) of the first record that normalizes to the key.
C15_FirstWins ==
    Loaded =>
        \A n \in 1..Len(dictFile.records) :
            LET key == canonicalize(dictFile.records[n][1])
            IN  /\ getDirty(dirtyDict, key) = {dosToWinCode(FirstRecord(key)[1])}
                /\ getExplanation(explanationDict, key)
                       = {dosToWinCode(FirstRecord(key)[2])}

\* C15 witness: two records of different spelling and explanation normalize
\* to one key, and the tables hold those of the first.
C15_Witness ==
    /\ Loaded
    /\ Len(dictFile.records) = 2
    /\ canonicalize(dictFile.records[1][1]) = canonicalize(dictFile.records[2][1])
    /\ dosToWinCode(dictFile.records[1][1]) # dosToWinCode(dictFile.records[2][1])
    /\ dosToWinCode(dictFile.records[1][2]) # dosToWinCode(dictFile.records[2][2])
    /\ getDirty(dirtyDict, allWords[2]) = {dosToWinCode(dictFile.records[1][1])}

\* s is made of uppercase letters of the alphabet only
IsUppercase(s) == \A i \in 1..Len(s) : s[i] >= CYRILLIC_A - 32 /\ s[i] < CYRILLIC_A

\* C16: normalizing a string of uppercase letters returns the string, and
\* normalizing the result of any normalization returns that result.
C16_CanonicalRoundTrip ==
    normPc = "done" =>
        /\ IsUppercase(normIn) => normOut = normIn
        /\ canonicalize(normOut) = normOut

\* C16 witness: a two-letter uppercase word came back unchanged.
C16_Witness ==
    /\ normPc = "done"
    /\ Len(normIn) = 2
    /\ IsUppercase(normIn)
    /\ normOut = normIn

\* A word of a DOS letter and a lowercase letter was normalized to two
\* uppercase letters.
NormalizedExample ==
    /\ normPc = "done"
    /\ normIn = <<130, 224>>
    /\ normOut = <<194, 192>>

\* a query step
Query == \E pattern \in Patterns : FindPossible(pattern)

\* C17 (as claimed): a findPossible call leaves _fastSearch as it was: the
\* keys of every table and the list of every bucket.
C17_QueriesKeepIndex == [][Query => fastSearch' = fastSearch]_vars

\* A findPossible call keeps every bucket and its list; a bucket it adds is
\* empty.
QueriesKeepIdentifiers ==
    [][Query =>
        \A len \in DOMAIN fastSearch :
            /\ DOMAIN fastSearch[len] \subseteq DOMAIN fastSearch'[len]
            /\ \A key \in DOMAIN fastSearch'[len] :
                   fastSearch'[len][key] = MapGet(fastSearch[len], key)]_vars

\* A query for a pattern no word matches has left an empty bucket in its table.
EmptyBucketLeft ==
    /\ Answered
    /\ lastResult.size = 0
    /\ Len(lastResult.pattern) < LONGEST_WORD
    /\ getKey(lastResult.pattern) \in DOMAIN fastSearch[Len(lastResult.pattern)]

\* list holds no value twice
NoRepeats(list) == Cardinality(Range(list)) = Len(list)

\* C18 (as claimed): no bucket lists an identifier twice, and a returned view
\* lists no identifier twice: its count is the number of loaded words that
\* match its pattern.
C18_NoRepeatedIdentifiers ==
    pc = "live" =>
        /\ \A len \in DOMAIN fastSearch : \A key \in DOMAIN fastSearch[len] :
               NoRepeats(fastSearch[len][key])
        /\ Answered =>
               /\ NoRepeats(heap[lastResult.buf].data)
               /\ lastResult.size = Cardinality(MatchingIds(lastResult.pattern))

\* The buckets of the words of six letters or more list no identifier twice
\* while the word table fits the identifier range.
NoRepeatsFromSixLetters ==
    (pc = "live" /\ Len(allWords) <= IndexRange) =>
        \A len \in 6..(LONGEST_WORD - 1) : \A key \in DOMAIN fastSearch[len] :
            NoRepeats(fastSearch[len][key])

\* The view for a loaded three-letter word counts its one identifier eight times.
CountedEightTimes ==
    /\ Answered
    /\ Len(allWords) = 1
    /\ lastResult.pattern = allWords[1]
    /\ Len(lastResult.pattern) = 3
    /\ lastResult.size = 8

\* the cells of the slots, slot by slot
SlotLetters == {<<n, c>> \in (1..Len(areas)) \X (1..MaxCells) : c <= Len(areas[n].letters)}

\* the board cell a slot cell references
CellOf(nc) == <<areas[nc[1]].letters[nc[2]].row, areas[nc[1]].letters[nc[2]].col>>

\* the board cells of slot n
CellsOfSlot(n) == {CellOf(<<n, c>>) : c \in 1..Len(areas[n].letters)}

\* C19: after loadWords every slot cell carries the id row * M + column of its
\* board cell, two slot cells have one id exactly when they reference one
\* board cell, two slots of one orientation share no cell and a horizontal
\* and a vertical slot share at most one.
C19_SlotCellIds ==
    gridPc = "words" =>
        /\ \A nc \in SlotLetters :
               areas[nc[1]].letters[nc[2]].id = CellOf(nc)[1] * M + CellOf(nc)[2]
        /\ \A x \in SlotLetters, y \in SlotLetters :
               (areas[x[1]].letters[x[2]].id = areas[y[1]].letters[y[2]].id)
                   <=> (CellOf(x) = CellOf(y))
        /\ \A n \in 1..Len(areas), m \in 1..Len(areas) :
               n # m =>
                   Cardinality(CellsOfSlot(n) \cap CellsOfSlot(m))
                       <= (IF areas[n].hor = areas[m].hor THEN 0 ELSE 1)

\* C19 witness: on a board that is not square a horizontal and a vertical
\* slot cross in a cell that is not in the first row, under one id.
C19_Witness ==
    /\ gridPc = "words"
    /\ N # M
    /\ \E x \in SlotLetters, y \in SlotLetters :
        /\ areas[x[1]].hor = 1
        /\ areas[y[1]].hor = 0
        /\ CellOf(x) = CellOf(y)
        /\ CellOf(x)[1] > 0
        /\ areas[x[1]].letters[x[2]].id = areas[y[1]].letters[y[2]].id

====
